---- MODULE Spec2Model ----
(***************************************************************************)
(* A model of documentQA.py: the ChatWithFile pipeline (query expansion,   *)
(* multi-query retrieval, result fusion, synthesis, conversation history)  *)
(* and the two-page Streamlit session (upload page, chat page).            *)
(*                                                                         *)
(* Four specifications share the module's variables:                       *)
(*   Spec       one ChatWithFile instance and its chat() invocations;      *)
(*   SpecUI     the Streamlit session: upload_and_handle_file, the         *)
(*              "Proceed to Chat" button, chat_interface;                  *)
(*   SpecParse  generate_related_queries applied to bounded LLM texts;     *)
(*   SpecRRF    reciprocal_rank_fusion applied to bounded result lists.    *)
(* Each specification leaves the other parts' variables at their parked    *)
(* values.                                                                 *)
(*                                                                         *)
(* Text is modelled at the level of JSON lexemes: a raw LLM response is a  *)
(* sequence over Lexemes, where "q1"/"q2" stand for the JSON object        *)
(* {"query": "q1"} / {"query": "q2"}, "s" for a JSON string literal and    *)
(* "x" for any prose that is no JSON token.                                *)
(***************************************************************************)
EXTENDS Integers, Sequences, FiniteSets, TLC

VARIABLES
    \* ---- ChatWithFile instance (Spec)
    llm,                  \* self.llm is set (not None)
    llm_anthropic,        \* self.llm_anthropic is set (not None)
    bound_attrs,          \* chain attributes bound by the constructor
    conversation_history, \* self.conversation_history
    pc,                   \* position of the chat() invocation
    question,             \* chat()'s argument
    queries,              \* local: [question] + related_queries
    idx,                  \* local: position of the retrieval loop (1-based)
    all_results,          \* local: all_results
    scored_results,       \* local: scored_results
    synthesis_prompt,     \* local: synthesis_prompt
    final_answer,         \* local: final_answer
    returned,             \* the value chat() returned
    err,                  \* the exception chat() raised, if any
    invoked,              \* observation: the query strings passed to the QA chain
    trace,                \* observation: the stages executed by this invocation
    nchats,               \* observation: number of chat() invocations begun
    \* ---- Streamlit session (SpecUI)
    page,                 \* st.session_state['page']
    file_path,            \* st.session_state['file_path']
    file_type,            \* st.session_state['file_type']
    chat_instance,        \* 'chat_instance' in st.session_state
    temp_files,           \* names of the files written under temp/
    uploaded_file,        \* the uploader widget's current file
    ui_message,           \* what the last script run surfaced to the user
    proceed_button,       \* the "Proceed to Chat" button is on screen
    last_op,              \* observation: the user action that ran last
    \* ---- generate_related_queries alone (SpecParse)
    generated_text,       \* the raw LLM response text
    related_queries,      \* the list generate_related_queries returned
    parse_done,
    \* ---- reciprocal_rank_fusion alone (SpecRRF)
    rrf_input,
    rrf_output,
    rrf_done

chatVars == <<llm, llm_anthropic, bound_attrs, conversation_history, pc, question,
              queries, idx, all_results, scored_results, synthesis_prompt,
              final_answer, returned, err, invoked, trace, nchats>>
uiVars == <<page, file_path, file_type, chat_instance, temp_files, uploaded_file,
            ui_message, proceed_button, last_op>>
parseVars == <<generated_text, related_queries, parse_done>>
rrfVars == <<rrf_input, rrf_output, rrf_done>>
vars == <<chatVars, uiVars, parseVars, rrfVars>>

None == "None"

(***************************************************************************)
(* Bounds.                                                                 *)
(***************************************************************************)
MaxTextLen == 6      \* longest raw LLM text of SpecParse, in lexemes
MaxResults == 3      \* longest result list of SpecRRF
MaxRelated == 2      \* most related queries the LLM returns in Spec
MaxChats == 2        \* most chat() invocations on one instance in Spec

(***************************************************************************)
(* Sequences helpers.                                                      *)
(***************************************************************************)
SeqsUpTo(S, n) == UNION {[1..k -> S] : k \in 0..n}

Min2(a, b) == IF a < b THEN a ELSE b
Max2(a, b) == IF a > b THEN a ELSE b

(***************************************************************************)
(* JSON values and lexemes.                                                *)
(***************************************************************************)
QueryStrings == {"q1", "q2"}
Lexemes == {"[", "]", ",", "s", "x"} \cup QueryStrings

Obj(q) == [kind |-> "obj", query |-> q, items |-> <<>>]
Str == [kind |-> "str", query |-> "", items |-> <<>>]
Arr(l) == [kind |-> "arr", query |-> "", items |-> l]

\* str.find: the 0-based index of the first occurrence, -1 when there is none.
FindMutant(t, c) ==
    IF \E i \in 1..Len(t) : t[i] = c
    THEN (CHOOSE i \in 1..Len(t) : t[i] = c /\ \A j \in (i+1)..Len(t) : t[j] # c) - 1
    ELSE -1

Find(t, c) ==
    IF \E i \in 1..Len(t) : t[i] = c
    THEN (CHOOSE i \in 1..Len(t) : t[i] = c /\ \A j \in 1..(i-1) : t[j] # c) - 1
    ELSE -1

\* str.rfind: the 0-based index of the last occurrence, -1 when there is none.
RFind(t, c) ==
    IF \E i \in 1..Len(t) : t[i] = c
    THEN (CHOOSE i \in 1..Len(t) : t[i] = c /\ \A j \in (i+1)..Len(t) : t[j] # c) - 1
    ELSE -1

\* Python's t[a:b] for 0-based a, b, a negative index counting from the end.
PySlice(t, a, b) ==
    LET n == Len(t)
        lo == IF a < 0 THEN Max2(n + a, 0) ELSE Min2(a, n)
        hi == IF b < 0 THEN Max2(n + b, 0) ELSE Min2(b, n)
    IN  IF lo >= hi THEN <<>> ELSE SubSeq(t, lo + 1, hi)

\* json.loads, by recursive descent over the lexemes: a value is an object
\* lexeme, a string lexeme or an array of values separated by commas.
ParseFail == [ok |-> FALSE, val |-> Str, next |-> 0]

RECURSIVE ParseValue(_, _)
RECURSIVE ParseItems(_, _, _)
ParseValue(t, i) ==
    IF i > Len(t) THEN ParseFail
    ELSE IF t[i] \in QueryStrings THEN [ok |-> TRUE, val |-> Obj(t[i]), next |-> i + 1]
    ELSE IF t[i] = "s" THEN [ok |-> TRUE, val |-> Str, next |-> i + 1]
    ELSE IF t[i] = "["
         THEN IF i + 1 <= Len(t) /\ t[i + 1] = "]"
              THEN [ok |-> TRUE, val |-> Arr(<<>>), next |-> i + 2]
              ELSE ParseItems(t, i + 1, <<>>)
    ELSE ParseFail

ParseItems(t, i, acc) ==
    LET r == ParseValue(t, i)
    IN  IF ~r.ok \/ r.next > Len(t) THEN ParseFail
        ELSE IF t[r.next] = "," THEN ParseItems(t, r.next + 1, Append(acc, r.val))
        ELSE IF t[r.next] = "]"
             THEN [ok |-> TRUE, val |-> Arr(Append(acc, r.val)), next |-> r.next + 1]
        ELSE ParseFail

\* json.loads(json_str): the whole string must be one value; anything else
\* raises json.JSONDecodeError.
JsonLoads(json_str) ==
    LET r == ParseValue(json_str, 1)
    IN  IF r.ok /\ r.next = Len(json_str) + 1
        THEN [ok |-> TRUE, val |-> r.val]
        ELSE [ok |-> FALSE, val |-> Str]

\* The try/except of generate_related_queries: the slice from the first '['
\* to the last ']' is parsed; a decode error gives the empty list.
JsonStr(text) == PySlice(text, Find(text, "["), RFind(text, "]") + 1)

ParseRelatedQueries(text) ==
    LET r == JsonLoads(JsonStr(text))
    IN  IF r.ok THEN r.val.items ELSE <<>>

(***************************************************************************)
(* reciprocal_rank_fusion.                                                 *)
(***************************************************************************)
\* The score added for one occurrence of a query string.
ScoreStepMutant(rank) == rank

ScoreStep(rank) == 1

\* fused_scores after the loop, as the dict's values in insertion order: one
\* bucket per query string, holding the first result with that query and the
\* sum of the steps of all its occurrences.
RECURSIVE FuseLoop(_, _, _)
FuseLoop(results, i, fused) ==
    IF i > Len(results) THEN fused
    ELSE LET result == results[i]
             doc_id == result.query
             have == \E j \in 1..Len(fused) : fused[j].doc.query = doc_id
             withKey == IF have THEN fused
                        ELSE Append(fused, [doc |-> result, score |-> 0])
             bumped == [j \in 1..Len(withKey) |->
                          IF withKey[j].doc.query = doc_id
                          THEN [withKey[j] EXCEPT !.score = @ + ScoreStep(i)]
                          ELSE withKey[j]]
         IN  FuseLoop(results, i + 1, bumped)

\* sorted(..., key=score, reverse=True): stable, highest score first.
RECURSIVE InsertByScore(_, _)
InsertByScore(sortedSeq, e) ==
    IF sortedSeq = <<>> THEN <<e>>
    ELSE IF Head(sortedSeq).score >= e.score
         THEN <<Head(sortedSeq)>> \o InsertByScore(Tail(sortedSeq), e)
         ELSE <<e>> \o sortedSeq

RECURSIVE SortedByScore(_)
SortedByScore(s) ==
    IF s = <<>> THEN <<>>
    ELSE InsertByScore(SortedByScore(SubSeq(s, 1, Len(s) - 1)), s[Len(s)])

\* Fusion without grouping: one bucket of score 1 per result.
FusionWithoutGrouping(results) ==
    [i \in 1..Len(results) |-> [doc |-> results[i], score |-> 1]]

reciprocal_rank_fusion(results) == SortedByScore(FuseLoop(results, 1, <<>>))

\* create_synthesis_prompt: the question and, highest score first, one
\* "Answer i (Score: s): a" entry per scored result.
create_synthesis_prompt(original_question, results) ==
    LET sorted_results == SortedByScore(results)
    IN  [question |-> original_question,
         entries |-> [i \in 1..Len(sorted_results) |->
                        [score |-> sorted_results[i].score,
                         answer |-> sorted_results[i].answer]]]

(***************************************************************************)
(* The ChatWithFile instance.                                              *)
(***************************************************************************)
Questions == QueryStrings
Answers == {"a1", "a2"}
SynthContent == "synthesized"
UnableMsg == "Unable to synthesize a response."
NoAnswerMsg == "No answer available."
NoResultsMsg == "No results were available to synthesize a response."

HumanMessage(c) == [role |-> "human", content |-> c]
AIMessage(c) == [role |-> "ai", content |-> c]

\* What the LLM may answer to the expansion prompt: a JSON array of up to
\* MaxRelated elements (objects with a 'query' key, or bare strings), alone
\* or after some prose, and a few texts that are no JSON array.
RECURSIVE RenderItems(_)
RenderItems(l) ==
    IF l = <<>> THEN <<>>
    ELSE IF Len(l) = 1 THEN <<l[1]>>
    ELSE <<l[1], ",">> \o RenderItems(Tail(l))

RenderArray(l) == <<"[">> \o RenderItems(l) \o <<"]">>

LLMTexts ==
    LET arrays == {RenderArray(l) : l \in SeqsUpTo(QueryStrings \cup {"s"}, MaxRelated)}
    IN  arrays \cup {<<"x">> \o a : a \in arrays}
               \cup {<<>>, <<"x">>, <<"[", "q1">>, <<"q1", "]">>}

\* setup_conversation_retrieval_chain: which of self.llm, self.llm_anthropic
\* are set and which chain attributes are bound, from the two API keys.
SetupChain(openai_api_key, anthropic_api_key) ==
    [llm |-> openai_api_key,
     llm_anthropic |-> anthropic_api_key,
     attrs |-> (IF openai_api_key THEN {"qa"} ELSE {})
               \cup (IF anthropic_api_key THEN {"anthropic_qa"} ELSE {})]

NoLocals ==
    /\ queries = <<>>
    /\ idx = 0
    /\ all_results = <<>>
    /\ scored_results = <<>>
    /\ synthesis_prompt = None
    /\ final_answer = None
    /\ returned = None
    /\ err = None
    /\ invoked = <<>>
    /\ trace = <<>>

InitChat ==
    /\ \E openai_api_key \in BOOLEAN, anthropic_api_key \in BOOLEAN :
          LET c == SetupChain(openai_api_key, anthropic_api_key)
          IN  /\ llm = c.llm
              /\ llm_anthropic = c.llm_anthropic
              /\ bound_attrs = c.attrs
    /\ conversation_history = <<>>
    /\ pc = "idle"
    /\ question = None
    /\ nchats = 0
    /\ NoLocals

ParkChat ==
    /\ llm = FALSE
    /\ llm_anthropic = FALSE
    /\ bound_attrs = {}
    /\ conversation_history = <<>>
    /\ pc = "parked"
    /\ question = None
    /\ nchats = 0
    /\ NoLocals

Raise(e) ==
    /\ pc' = "raised"
    /\ err' = e

\* chat(question) is called: the previous invocation, if any, has ended.
ChatCall(q) ==
    /\ pc \in {"idle", "returned", "raised"}
    /\ nchats < MaxChats
    /\ nchats' = nchats + 1
    /\ question' = q
    /\ pc' = "EXPAND"
    /\ queries' = <<>>
    /\ idx' = 0
    /\ all_results' = <<>>
    /\ scored_results' = <<>>
    /\ synthesis_prompt' = None
    /\ final_answer' = None
    /\ returned' = None
    /\ err' = None
    /\ invoked' = <<>>
    /\ trace' = <<>>
    /\ UNCHANGED <<llm, llm_anthropic, bound_attrs, conversation_history>>
    /\ UNCHANGED <<uiVars, parseVars, rrfVars>>

\* Lines 102-108: generate_related_queries, the extraction of each 'query'
\* value, queries = [question] + related_queries.
HasQuery(v) == v.kind = "obj"

Expand ==
    /\ pc = "EXPAND"
    /\ trace' = Append(trace, "EXPAND")
    /\ IF ~llm
       THEN \* self.llm is None: self.llm.invoke raises AttributeError
            /\ Raise("AttributeError: llm")
            /\ UNCHANGED <<queries, idx>>
       ELSE \E text \in LLMTexts :
               LET related_queries_dicts == ParseRelatedQueries(text)
               IN  IF \A i \in 1..Len(related_queries_dicts) :
                          HasQuery(related_queries_dicts[i])
                   THEN /\ queries' = <<question>> \o
                                [i \in 1..Len(related_queries_dicts) |->
                                    related_queries_dicts[i].query]
                        /\ idx' = 1
                        /\ pc' = "RETRIEVE"
                        /\ UNCHANGED err
                   ELSE \* q['query'] on a str or a list raises TypeError
                        /\ Raise("TypeError: query")
                        /\ UNCHANGED <<queries, idx>>
    /\ UNCHANGED <<llm, llm_anthropic, bound_attrs, conversation_history, question,
                   all_results, scored_results, synthesis_prompt, final_answer,
                   returned, invoked, nchats>>
    /\ UNCHANGED <<uiVars, parseVars, rrfVars>>

\* Line 127: the branch taken after the loop.
AfterRetrievalMutant(results) == "FUSE"

AfterRetrieval(results) == IF results # <<>> THEN "FUSE" ELSE "APPEND_HISTORY"

\* Lines 110-124: one iteration of the retrieval loop.
Retrieve ==
    /\ pc = "RETRIEVE"
    /\ idx <= Len(queries)
    /\ trace' = Append(trace, "RETRIEVE")
    /\ LET query_text == queries[idx]
           chain == IF llm THEN "qa"
                    ELSE IF llm_anthropic THEN "qa_anthropic"
                    ELSE None
       IN  IF chain # None /\ chain \notin bound_attrs
           THEN \* the attribute was never bound: AttributeError
                /\ Raise(IF chain = "qa" THEN "AttributeError: qa"
                         ELSE "AttributeError: qa_anthropic")
                /\ UNCHANGED <<all_results, invoked, idx>>
           ELSE \E response \in (IF chain = None THEN {None} ELSE {None} \cup Answers) :
                   /\ invoked' = IF chain = None THEN invoked
                                 ELSE Append(invoked, query_text)
                   /\ all_results' =
                          IF response # None
                          THEN Append(all_results,
                                      [query |-> query_text, answer |-> response])
                          ELSE all_results
                   /\ idx' = idx + 1
                   /\ pc' = IF idx < Len(queries) THEN "RETRIEVE"
                            ELSE AfterRetrieval(all_results')
                   /\ UNCHANGED err
    /\ UNCHANGED <<llm, llm_anthropic, bound_attrs, conversation_history, question,
                   queries, scored_results, synthesis_prompt, final_answer,
                   returned, nchats>>
    /\ UNCHANGED <<uiVars, parseVars, rrfVars>>

\* Line 131: scored_results from the fused buckets.
ScoredOf(reranked_results) ==
    [i \in 1..Len(reranked_results) |->
        [score |-> reranked_results[i].score,
         query |-> reranked_results[i].doc.query,
         answer |-> reranked_results[i].doc.answer]]

\* Lines 129-132: fusion and the synthesis prompt.
Fuse ==
    /\ pc = "FUSE"
    /\ trace' = Append(trace, "FUSE")
    /\ scored_results' = ScoredOf(reciprocal_rank_fusion(all_results))
    /\ synthesis_prompt' = create_synthesis_prompt(question, scored_results')
    /\ pc' = "SYNTHESIZE"
    /\ UNCHANGED <<llm, llm_anthropic, bound_attrs, conversation_history, question,
                   queries, idx, all_results, final_answer, returned, err, invoked,
                   nchats>>
    /\ UNCHANGED <<uiVars, parseVars, rrfVars>>

\* Lines 133-140: the synthesis call and the final answer.
Synthesize ==
    /\ pc = "SYNTHESIZE"
    /\ trace' = Append(trace, "SYNTHESIZE")
    /\ IF ~llm
       THEN /\ Raise("AttributeError: llm")
            /\ UNCHANGED final_answer
       ELSE \E synthesized_response \in {None, SynthContent} :
               /\ final_answer' = IF synthesized_response # None
                                  THEN synthesized_response
                                  ELSE UnableMsg
               /\ pc' = "APPEND_HISTORY"
               /\ UNCHANGED err
    /\ UNCHANGED <<llm, llm_anthropic, bound_attrs, conversation_history, question,
                   queries, idx, all_results, scored_results, synthesis_prompt,
                   returned, invoked, nchats>>
    /\ UNCHANGED <<uiVars, parseVars, rrfVars>>

\* Lines 143-144 and 148-149: the AI turn appended on each path.
AITurn(results, answer) ==
    IF results # <<>> THEN AIMessage(answer) ELSE AIMessage(NoAnswerMsg)

AppendHistory ==
    /\ pc = "APPEND_HISTORY"
    /\ trace' = Append(trace, "APPEND_HISTORY")
    /\ conversation_history' =
           conversation_history \o
               <<HumanMessage(question), AITurn(all_results, final_answer)>>
    /\ pc' = "RETURN"
    /\ UNCHANGED <<llm, llm_anthropic, bound_attrs, question, queries, idx,
                   all_results, scored_results, synthesis_prompt, final_answer,
                   returned, err, invoked, nchats>>
    /\ UNCHANGED <<uiVars, parseVars, rrfVars>>

\* Lines 146 and 150: the value returned on each path.
Return ==
    /\ pc = "RETURN"
    /\ trace' = Append(trace, "RETURN")
    /\ returned' = [answer |-> IF all_results # <<>> THEN final_answer
                               ELSE NoResultsMsg]
    /\ pc' = "returned"
    /\ UNCHANGED <<llm, llm_anthropic, bound_attrs, conversation_history, question,
                   queries, idx, all_results, scored_results, synthesis_prompt,
                   final_answer, err, invoked, nchats>>
    /\ UNCHANGED <<uiVars, parseVars, rrfVars>>

NextChat ==
    \/ \E q \in Questions : ChatCall(q)
    \/ Expand
    \/ Retrieve
    \/ Fuse
    \/ Synthesize
    \/ AppendHistory
    \/ Return

(***************************************************************************)
(* The Streamlit session.  A file name is a sequence of segments, the last *)
(* one being what str.endswith sees.                                       *)
(***************************************************************************)
FileTypes == {"csv", "pdf", "txt", "pptx", "docx", "xlsx"}
Suffix == [t \in FileTypes |->
             CASE t = "csv" -> ".csv" [] t = "pdf" -> ".pdf" [] t = "txt" -> ".txt"
               [] t = "pptx" -> ".pptx" [] t = "docx" -> ".docx" [] t = "xlsx" -> ".xlsx"]

FileNames ==
    {<<"report", Suffix[t]>> : t \in FileTypes}
        \cup {<<"image", ".png">>, <<"REPORT", ".CSV">>, <<"report", ".csv", ".png">>,
              <<"image", ".png", ".pdf">>, <<"notes">>}

EndsWith(name, suffix) == Len(name) > 0 /\ name[Len(name)] = suffix

\* Lines 224-237: the if/elif chain over the file name's ending.
FileTypeOfMutant(name) ==
    IF EndsWith(name, ".csv") THEN "csv"
    ELSE IF EndsWith(name, ".pdf") THEN "pdf"
    ELSE IF EndsWith(name, ".pptx") THEN "pptx"
    ELSE IF EndsWith(name, ".docx") THEN "docx"
    ELSE IF EndsWith(name, ".xlsx") THEN "xlsx"
    ELSE "txt"

FileTypeOf(name) ==
    IF EndsWith(name, ".csv") THEN "csv"
    ELSE IF EndsWith(name, ".pdf") THEN "pdf"
    ELSE IF EndsWith(name, ".txt") THEN "txt"
    ELSE IF EndsWith(name, ".pptx") THEN "pptx"
    ELSE IF EndsWith(name, ".docx") THEN "docx"
    ELSE IF EndsWith(name, ".xlsx") THEN "xlsx"
    ELSE None

\* No uploaded file, no 'file_path' key in the session state.
NoFile == <<>>

\* os.path.join("temp", name)
TempPathMutant(name) == <<"temp", <<"upload">>>>

TempPath(name) == <<"temp", name>>

\* The page the button's on_click callback stores.
ChatPage == 2

InitUI ==
    /\ page = 1
    /\ file_path = NoFile
    /\ file_type = None
    /\ chat_instance = FALSE
    /\ temp_files = {}
    /\ uploaded_file = NoFile
    /\ ui_message = None
    /\ proceed_button = FALSE
    /\ last_op = None

ParkUI ==
    /\ page = 0
    /\ file_path = NoFile
    /\ file_type = None
    /\ chat_instance = FALSE
    /\ temp_files = {}
    /\ uploaded_file = NoFile
    /\ ui_message = None
    /\ proceed_button = FALSE
    /\ last_op = None

\* The user puts a file into the uploader: the script reruns on page 1 and
\* upload_and_handle_file handles it (lines 222-250).
Upload(name) ==
    /\ page = 1
    /\ last_op' = "upload"
    /\ uploaded_file' = name
    /\ LET ftype == FileTypeOf(name)
       IN  IF ftype # None
           THEN /\ temp_files' = temp_files \cup {name}
                /\ file_path' = TempPath(name)
                /\ file_type' = ftype
                /\ ui_message' = "success"
                /\ proceed_button' = TRUE
           ELSE /\ ui_message' = "error: unsupported file type"
                /\ proceed_button' = FALSE
                /\ UNCHANGED <<temp_files, file_path, file_type>>
    /\ UNCHANGED <<page, chat_instance>>
    /\ UNCHANGED <<chatVars, parseVars, rrfVars>>

\* The user clears the uploader: the script reruns with no uploaded file.
ClearUpload ==
    /\ page = 1
    /\ uploaded_file # NoFile
    /\ last_op' = "clear"
    /\ uploaded_file' = NoFile
    /\ ui_message' = None
    /\ proceed_button' = FALSE
    /\ UNCHANGED <<page, file_path, file_type, chat_instance, temp_files>>
    /\ UNCHANGED <<chatVars, parseVars, rrfVars>>

\* chat_interface up to the text input (lines 254-263), for the given
\* session: whether the file is missing, and whether a chat instance exists
\* afterwards.
ChatInterface(path, files, instance) ==
    IF path = NoFile \/ path[2] \notin files
    THEN [message |-> "error: file missing", instance |-> instance]
    ELSE [message |-> None, instance |-> TRUE]

\* The user clicks "Proceed to Chat": the callback stores the page, then the
\* script reruns and, on page 2, runs chat_interface.
ProceedToChat ==
    /\ page = 1
    /\ proceed_button
    /\ last_op' = "proceed"
    /\ page' = ChatPage
    /\ proceed_button' = FALSE
    /\ IF page' = 2
       THEN LET r == ChatInterface(file_path, temp_files, chat_instance)
            IN  /\ ui_message' = r.message
                /\ chat_instance' = r.instance
       ELSE /\ ui_message' = None
            /\ UNCHANGED chat_instance
    /\ UNCHANGED <<file_path, file_type, temp_files, uploaded_file>>
    /\ UNCHANGED <<chatVars, parseVars, rrfVars>>

\* Any later interaction on page 2 reruns chat_interface.
RerunChatPage ==
    /\ page = 2
    /\ last_op' = "rerun"
    /\ LET r == ChatInterface(file_path, temp_files, chat_instance)
       IN  /\ ui_message' = r.message
           /\ chat_instance' = r.instance
    /\ UNCHANGED <<page, file_path, file_type, temp_files, uploaded_file,
                   proceed_button>>
    /\ UNCHANGED <<chatVars, parseVars, rrfVars>>

NextUI ==
    \/ \E name \in FileNames : Upload(name)
    \/ ClearUpload
    \/ ProceedToChat
    \/ RerunChatPage

(***************************************************************************)
(* generate_related_queries on its own.                                    *)
(***************************************************************************)
Texts == SeqsUpTo(Lexemes, MaxTextLen)

InitParse ==
    /\ generated_text \in Texts
    /\ related_queries = <<>>
    /\ parse_done = FALSE

ParkParse ==
    /\ generated_text = <<>>
    /\ related_queries = <<>>
    /\ parse_done = FALSE

\* Lines 171-181.
GenerateRelatedQueries ==
    /\ ~parse_done
    /\ related_queries' = ParseRelatedQueries(generated_text)
    /\ parse_done' = TRUE
    /\ UNCHANGED generated_text
    /\ UNCHANGED <<chatVars, uiVars, rrfVars>>

NextParse == GenerateRelatedQueries

(***************************************************************************)
(* reciprocal_rank_fusion on its own.                                      *)
(***************************************************************************)
Results == [query : QueryStrings \cup {"q3"}, answer : Answers]

InitRRF ==
    /\ rrf_input \in SeqsUpTo(Results, MaxResults)
    /\ rrf_output = <<>>
    /\ rrf_done = FALSE

ParkRRF ==
    /\ rrf_input = <<>>
    /\ rrf_output = <<>>
    /\ rrf_done = FALSE

\* Lines 190-203.
ReciprocalRankFusion ==
    /\ ~rrf_done
    /\ rrf_output' = reciprocal_rank_fusion(rrf_input)
    /\ rrf_done' = TRUE
    /\ UNCHANGED rrf_input
    /\ UNCHANGED <<chatVars, uiVars, parseVars>>

NextRRF == ReciprocalRankFusion

(***************************************************************************)
(* The specifications.                                                     *)
(***************************************************************************)
InitSpec == InitChat /\ ParkUI /\ ParkParse /\ ParkRRF
Spec == InitSpec /\ [][NextChat]_vars

InitSpecUI == ParkChat /\ InitUI /\ ParkParse /\ ParkRRF
SpecUI == InitSpecUI /\ [][NextUI]_vars

InitSpecParse == ParkChat /\ ParkUI /\ InitParse /\ ParkRRF
SpecParse == InitSpecParse /\ [][NextParse]_vars

InitSpecRRF == ParkChat /\ ParkUI /\ ParkParse /\ InitRRF
SpecRRF == InitSpecRRF /\ [][NextRRF]_vars

(***************************************************************************)
(* Properties.                                                             *)
(***************************************************************************)
Ended == pc \in {"returned", "raised"}

AlternatesFromHuman(h) ==
    \A i \in 1..Len(h) : h[i].role = (IF i % 2 = 1 THEN "human" ELSE "ai")

\* C1: after N chat() invocations on one instance, whatever path each took,
\* conversation_history has length exactly 2N and alternates human, AI
\* starting with human.
C1_HistoryTwoPerChat ==
    pc \in {"idle", "returned", "raised"} =>
        /\ Len(conversation_history) = 2 * nchats
        /\ AlternatesFromHuman(conversation_history)

\* C2: with no credential configured (self.llm and self.llm_anthropic both
\* None), chat() returns "No results were available to synthesize a
\* response." and appends one human turn and one AI turn.
C2_NoBackendFallback ==
    (~llm /\ ~llm_anthropic /\ Ended) =>
        /\ pc = "returned"
        /\ returned = [answer |-> NoResultsMsg]
        /\ Len(conversation_history) = 2 * nchats
        /\ AlternatesFromHuman(conversation_history)

\* C5: with an LLM backend configured, the QA chain is invoked exactly once
\* for each element of [question] + related queries, in that order, and a
\* query without a response contributes no result and does not make the
\* invocation fail.  (Invocations whose related queries could not be
\* extracted are left aside.)
C5_RetrievalPerQuery ==
    ((llm \/ llm_anthropic) /\ Ended /\ err # "TypeError: query") =>
        /\ pc = "returned"
        /\ Len(queries) >= 1
        /\ queries[1] = question
        /\ invoked = queries
        /\ Len(all_results) <= Len(queries)

\* C10: after every chat() invocation that returns, the last two entries of
\* conversation_history are the human turn holding the question and an AI
\* turn whose content equals the returned 'answer'.
C10_HistoryMatchesReturn ==
    pc = "returned" =>
        /\ Len(conversation_history) >= 2
        /\ conversation_history[Len(conversation_history) - 1] = HumanMessage(question)
        /\ conversation_history[Len(conversation_history)] = AIMessage(returned.answer)

(***************************************************************************)
(* Stage order (C6).                                                       *)
(***************************************************************************)
StageRank == [s \in {"EXPAND", "RETRIEVE", "FUSE", "SYNTHESIZE", "APPEND_HISTORY",
                     "RETURN"} |->
                 CASE s = "EXPAND" -> 1 [] s = "RETRIEVE" -> 2 [] s = "FUSE" -> 3
                   [] s = "SYNTHESIZE" -> 4 [] s = "APPEND_HISTORY" -> 5
                   [] s = "RETURN" -> 6]

Repeat(x, n) == [i \in 1..n |-> x]

InTrace(s) == \E i \in 1..Len(trace) : trace[i] = s

\* C6 as stated: every invocation passes through EXPAND, RETRIEVE (once per
\* query), FUSE, SYNTHESIZE, APPEND_HISTORY, RETURN, in this order, never
\* skipping a stage.
C6_AllStagesInOrder ==
    pc = "returned" =>
        trace = <<"EXPAND">> \o Repeat("RETRIEVE", Len(queries))
                    \o <<"FUSE", "SYNTHESIZE", "APPEND_HISTORY", "RETURN">>

\* C6 amended: the stages run in this order and none is re-entered; FUSE and
\* SYNTHESIZE run exactly when at least one query got a response and are
\* both skipped otherwise; an invocation that returns has run EXPAND, one
\* RETRIEVE per query, APPEND_HISTORY and RETURN; one that raises stops at
\* the stage that raised.
C6_StagesInOrderOrSkipped ==
    /\ trace # <<>> => trace[1] = "EXPAND"
    /\ \A i \in 1..(Len(trace) - 1) :
          \/ trace[i] = "RETRIEVE" /\ trace[i + 1] = "RETRIEVE"
          \/ StageRank[trace[i + 1]] = StageRank[trace[i]] + 1
          \/ /\ trace[i] = "RETRIEVE"
             /\ trace[i + 1] = "APPEND_HISTORY"
             /\ all_results = <<>>
    /\ InTrace("FUSE") => all_results # <<>>
    /\ (InTrace("FUSE") \/ InTrace("APPEND_HISTORY")) =>
          Cardinality({i \in 1..Len(trace) : trace[i] = "RETRIEVE"}) = Len(queries)
    /\ pc = "returned" =>
          trace = <<"EXPAND">> \o Repeat("RETRIEVE", Len(queries))
                      \o (IF all_results # <<>> THEN <<"FUSE", "SYNTHESIZE">> ELSE <<>>)
                      \o <<"APPEND_HISTORY", "RETURN">>
    /\ pc = "raised" => ~InTrace("APPEND_HISTORY") /\ ~InTrace("RETURN")

C6_SkipWitness ==
    /\ pc = "returned"
    /\ Len(queries) >= 2
    /\ all_results = <<>>
    /\ trace = <<"EXPAND">> \o Repeat("RETRIEVE", Len(queries))
                   \o <<"APPEND_HISTORY", "RETURN">>

(***************************************************************************)
(* Fusion inside chat() (C9).                                              *)
(***************************************************************************)
Occurrences(results, q) == Cardinality({j \in 1..Len(results) : results[j].query = q})

FirstWith(results, q) ==
    results[CHOOSE j \in 1..Len(results) :
               /\ results[j].query = q
               /\ \A k \in 1..(j - 1) : results[k].query # q]

DistinctQueries(results) ==
    \A i, j \in 1..Len(results) : i # j => results[i].query # results[j].query

\* C4: for every non-empty list of results whose query strings are pairwise
\* distinct, the output holds one entry per input result and every entry's
\* fused score is exactly 1.
C4_DistinctQueriesAllScoreOne ==
    (rrf_done /\ rrf_input # <<>> /\ DistinctQueries(rrf_input)) =>
        /\ Len(rrf_output) = Len(rrf_input)
        /\ \A i \in 1..Len(rrf_input) :
              \E j \in 1..Len(rrf_output) : rrf_output[j].doc = rrf_input[i]
        /\ \A j \in 1..Len(rrf_output) : rrf_output[j].score = 1

C4_ThreeDistinctWitness ==
    /\ rrf_done
    /\ Len(rrf_input) = 3
    /\ DistinctQueries(rrf_input)
    /\ Len(rrf_output) = 3

(***************************************************************************)
(* generate_related_queries on its own (C3).                               *)
(***************************************************************************)
\* The grammar of a JSON value over the lexemes, and what a well-formed text
\* denotes, stated by splitting the text rather than by scanning it.
RECURSIVE WellFormedValue(_)
RECURSIVE WellFormedItems(_)
WellFormedValue(u) ==
    \/ Len(u) = 1 /\ u[1] \in QueryStrings \cup {"s"}
    \/ /\ Len(u) >= 2
       /\ u[1] = "["
       /\ u[Len(u)] = "]"
       /\ (Len(u) = 2 \/ WellFormedItems(SubSeq(u, 2, Len(u) - 1)))

WellFormedItems(u) ==
    \/ WellFormedValue(u)
    \/ \E k \in 2..(Len(u) - 1) :
          /\ u[k] = ","
          /\ WellFormedValue(SubSeq(u, 1, k - 1))
          /\ WellFormedItems(SubSeq(u, k + 1, Len(u)))

RECURSIVE ValueOf(_)
RECURSIVE ItemsOf(_)
ValueOf(u) ==
    IF Len(u) = 1 THEN (IF u[1] = "s" THEN Str ELSE Obj(u[1]))
    ELSE IF Len(u) = 2 THEN Arr(<<>>)
    ELSE Arr(ItemsOf(SubSeq(u, 2, Len(u) - 1)))

ItemsOf(u) ==
    IF WellFormedValue(u) THEN <<ValueOf(u)>>
    ELSE LET k == CHOOSE k \in 2..(Len(u) - 1) :
                     /\ u[k] = ","
                     /\ WellFormedValue(SubSeq(u, 1, k - 1))
                     /\ WellFormedItems(SubSeq(u, k + 1, Len(u)))
         IN  <<ValueOf(SubSeq(u, 1, k - 1))>> \o ItemsOf(SubSeq(u, k + 1, Len(u)))

FirstOpen(t) == CHOOSE i \in 1..Len(t) : t[i] = "[" /\ \A j \in 1..(i - 1) : t[j] # "["
LastClose(t) == CHOOSE i \in 1..Len(t) : t[i] = "]" /\ \A j \in (i + 1)..Len(t) : t[j] # "]"

\* The text holds a '[' and, after the first one, a ']'.
HasBracketSubstring(t) ==
    /\ \E i \in 1..Len(t) : t[i] = "["
    /\ \E i \in 1..Len(t) : t[i] = "]"
    /\ FirstOpen(t) < LastClose(t)

BracketSubstring(t) == SubSeq(t, FirstOpen(t), LastClose(t))

WellFormedResponse(t) ==
    HasBracketSubstring(t) /\ WellFormedValue(BracketSubstring(t))

\* C3: if the substring from the first '[' to the last ']' is a well-formed
\* JSON array, the returned list has exactly its elements in the same order;
\* for every other text, also one with no '[' or no ']', the returned list
\* is empty.
C3_ParsedElementsOrEmpty ==
    parse_done =>
        IF WellFormedResponse(generated_text)
        THEN related_queries = ValueOf(BracketSubstring(generated_text)).items
        ELSE related_queries = <<>>

C3_TwoElementsWitness ==
    /\ parse_done
    /\ generated_text = <<"x", "[", "q2", ",", "s", "]">>
    /\ related_queries = <<Obj("q2"), Str>>

(***************************************************************************)
(* The upload page (C7, C8).                                               *)
(***************************************************************************)
Unsupported(name) == \A t \in FileTypes : ~EndsWith(name, Suffix[t])

\* C7: an upload whose file name ends with none of the six suffixes surfaces
\* an error and leaves file_path, file_type, page, chat_instance and the
\* files under temp/ exactly as they were, also after an earlier supported
\* upload.
C7_UnsupportedUploadChangesNothing ==
    [][(last_op' = "upload" /\ Unsupported(uploaded_file')) =>
          /\ ui_message' = "error: unsupported file type"
          /\ UNCHANGED <<file_path, file_type, page, chat_instance, temp_files>>]_vars

C7_RejectedAfterSupportedWitness ==
    /\ last_op = "upload"
    /\ uploaded_file = <<"image", ".png">>
    /\ ui_message = "error: unsupported file type"
    /\ file_path = <<"temp", <<"report", ".csv">>>>
    /\ file_type = "csv"
    /\ temp_files = {<<"report", ".csv">>}

\* C8: for every supported file type, an upload followed by "Proceed to
\* Chat" leaves the session on page 2 with file_path = temp/<file name> and
\* file_type the type of that name; page is 2 only after a proceed action.
C8_ProceedRecordsFile ==
    /\ page \in {1, 2}
    /\ last_op = "proceed" => page = 2
    /\ page = 2 =>
          /\ last_op \in {"proceed", "rerun"}
          /\ uploaded_file \in FileNames
          /\ file_type \in FileTypes
          /\ EndsWith(uploaded_file, Suffix[file_type])
          /\ file_path = <<"temp", uploaded_file>>
          /\ uploaded_file \in temp_files

C8_XlsxOnChatPageWitness ==
    /\ page = 2
    /\ last_op = "proceed"
    /\ file_type = "xlsx"
    /\ file_path = <<"temp", <<"report", ".xlsx">>>>

====
